---- MODULE Spec2Model ----
(***************************************************************************)
(* The two batch scraping engines of web_classifier/cli/scraper.py:        *)
(*   - _curl_main: a single control loop multiplexing transfers over a     *)
(*     fixed pool of pycurl handles (CurlMulti);                           *)
(*   - _playwright_main / _playwright_worker: num_pages cooperative        *)
(*     asyncio workers pulling URLs from one asyncio.Queue.                *)
(* A job is identified by its position in the URL list (equal URL texts    *)
(* at two positions are two jobs).  The output file is a sequence of       *)
(* tokens <<kind, job>>: the serialised record of job j is <<"rec", j>>,   *)
(* the bytes of os.linesep are LineSep.                                    *)
(***************************************************************************)
EXTENDS Integers, Sequences, FiniteSets, TLC

\* ---------------------------------------------------------------- bounds
MaxJobs == 3
MaxConn == 2
MaxPages == 2
\* strip_data: names in to_strip, requests of a page, kept resource types
MaxStrip == 2
MaxRequests == 2
MaxKeep == 1
\* calls of scrape by one worker
MaxScrapes == 2
\* sub-requests a page makes
MaxSubRequests == 2

\* ------------------------------------------------------ program constants
MinNumConn == 1
MaxNumConn == 10000

VARIABLES
    \* command line and input file (parse_cli_arguments, get_urls)
    scraper, arg_num_conn, arg_num_pages, urls,
    \* the machine the run is on: whether the engine's setup can succeed (the
    \* browser launches, the curl handles can be allocated)
    setup_ok,
    \* CurlScraper.curl_options, and the options set on each handle of the pool
    curl_options, handle_options,
    \* shared by both engines
    pc, output, pbar, outcome, results, delivered,
    \* _curl_main
    queue, freelist, num_urls, num_conn, num_processed, registered, cw, c,
    msgs, ok_list, err_list, num_q, idx, closed, hadError,
    \* _playwright_main and its workers
    job_queue, unfinished_tasks, wpc, wurl, markers,
    \* strip_data on its own: its arguments, its result, the result stripped again
    data, to_strip, keep_request_type, stripped, stripped_twice, spc,
    \* PlaywrightScraper.scrape on its own: the scraper's options, the position
    \* in scrape, the page of the call, the pages of the context that are open
    implicit_wait, clear_cookies, scrape_pc, page, raised_at, open_pages, scrapes,
    \* the with_requests option, and the statements the current call of scrape
    \* has completed, in order
    with_requests, steps_done,
    \* PlaywrightScraper._interceptor on its own: the two extension lists, the
    \* path of the sub-request, the calls made on its route, the sub-requests seen
    allow_exts, block_exts, route_path, route_calls, intercepted,
    \* the requestfinished callback of scrape on its own: the exchanges that
    \* finished, the _requests list, the exceptions logged, and whether an
    \* exception left the callback
    finished, requests, logged, escaped,
    \* the callbacks still awaiting, how far scrape and its worker are, and the
    \* requests of the result as the worker serialised them
    pending, hpc, result,
    \* an Output object on its own: the items of the OrderedDict and the
    \* attributes of the instance
    out_items, out_attrs,
    \* per handle, the jobs whose data its CurlWrapper's buffer and headers hold;
    \* what get_result returned, result by result
    wbuf, got,
    \* the pages of the workers against the one browser context: the cookies
    \* the context holds (by the worker whose job set them), where each
    \* worker's call of scrape is, the workers whose job in progress has set
    \* cookies, and the jobs each worker has done
    cookie_jar, cwpc, cookies_set, cdone

inputVars == <<scraper, arg_num_conn, arg_num_pages, urls, setup_ok>>
configVars == <<curl_options, handle_options>>
sharedVars == <<output, pbar, outcome, results, delivered>>
curlVars == <<queue, freelist, num_urls, num_conn, num_processed, registered,
              cw, c, msgs, ok_list, err_list, num_q, idx, closed, hadError>>
\* the data each handle's CurlWrapper holds, and what each result carries
wrapVars == <<wbuf, got>>
pwVars == <<job_queue, unfinished_tasks, wpc, wurl, markers>>
stripVars == <<data, to_strip, keep_request_type, stripped, stripped_twice, spc>>
\* the functions checked on their own, outside a run of an engine
scrapeOpts == <<implicit_wait, clear_cookies, with_requests>>
scrapeVars == <<scrapeOpts, scrape_pc, page, raised_at, open_pages, scrapes,
                steps_done>>
interceptVars == <<allow_exts, block_exts, route_path, route_calls, intercepted>>
handlerVars == <<finished, requests, logged, escaped, pending, hpc, result>>
outputVars == <<out_items, out_attrs>>
cookieVars == <<cookie_jar, cwpc, cookies_set, cdone>>
unitVars == <<stripVars, scrapeVars, interceptVars, handlerVars, outputVars, cookieVars>>
besidesStrip == <<scrapeVars, interceptVars, handlerVars, outputVars, cookieVars>>
besidesScrape == <<stripVars, interceptVars, handlerVars, outputVars, cookieVars>>
besidesIntercept == <<stripVars, scrapeVars, handlerVars, outputVars, cookieVars>>
besidesHandler == <<stripVars, interceptVars, outputVars, cookieVars>>
besidesOutput == <<stripVars, scrapeVars, interceptVars, handlerVars, cookieVars>>
besidesCookies == <<stripVars, interceptVars, handlerVars, outputVars>>
\* the variables of a run of an engine
runVars == <<inputVars, configVars, pc, sharedVars, curlVars, wrapVars, pwVars>>
vars == <<inputVars, configVars, pc, sharedVars, curlVars, wrapVars, pwVars, unitVars>>

\* ---------------------------------------------------------------- helpers
Min(a, b) == IF a <= b THEN a ELSE b

Range(s) == {s[i] : i \in 1..Len(s)}

Front(s) == SubSeq(s, 1, Len(s) - 1)

Last(s) == s[Len(s)]

RECURSIVE Count(_, _)
Count(s, x) ==
    IF s = <<>> THEN 0
    ELSE (IF Head(s) = x THEN 1 ELSE 0) + Count(Tail(s), x)

\* The stop marker put on the job queue (None), and "no handle / no job".
None == 0

\* os.linesep encoded as utf-8 (one byte on the platforms the tool targets).
LineSep == << <<"nl", 0>> >>

\* convert_data(data): the serialised record of job j, which holds no line
\* separator (orjson escapes it).
Record(j) == <<"rec", j>>

\* What the output file holds before the run (io.open(..., "wb") empties it).
OldContent == << <<"old", 0>> >>

\* The jobs of the run: positions in the list get_urls returns.
Jobs == 1..Len(urls)

\* num_conn values tried: small ones, and the two ends of the accepted range.
NumConnInputs == (0..MaxConn) \cup {MaxNumConn, MaxNumConn + 1}

\* output_fp.truncate(output_fp.tell() - len(os.linesep)): the last
\* len(os.linesep) bytes are cut.  A record that loses its last byte is no
\* longer the record: it is kept as the token <<"cut", j>>.
CutLast(f) ==
    IF Last(f)[1] = "nl" THEN Front(f)
    ELSE Append(Front(f), <<"cut", Last(f)[2]>>)

TruncateSize(f) == Len(f) - Len(LineSep)

\* ------------------------------------------------------------------- Init
RunInit ==
    /\ scraper \in {"curl", "playwright"}
    /\ setup_ok \in BOOLEAN
    /\ curl_options = {}
    /\ handle_options = <<>>
    /\ urls \in {[i \in 1..k |-> i] : k \in 0..MaxJobs}
    /\ arg_num_conn \in (IF scraper = "curl" THEN NumConnInputs ELSE {None})
    /\ arg_num_pages \in (IF scraper = "playwright" THEN 0..MaxPages ELSE {None})
    /\ pc = "start"
    /\ output = OldContent
    /\ pbar = 0
    /\ outcome = [j \in Jobs |-> "none"]
    /\ results = <<>>
    /\ delivered = [j \in Jobs |-> 0]
    /\ queue = <<>>
    /\ freelist = <<>>
    /\ num_urls = 0
    /\ num_conn = 0
    /\ num_processed = 0
    /\ registered = {}
    /\ cw = <<>>
    /\ c = None
    /\ msgs = <<>>
    /\ ok_list = <<>>
    /\ err_list = <<>>
    /\ num_q = 0
    /\ idx = 0
    /\ closed = <<>>
    /\ hadError = {}
    /\ wbuf = <<>>
    /\ got = <<>>
    /\ job_queue = <<>>
    /\ unfinished_tasks = 0
    /\ wpc = <<>>
    /\ wurl = <<>>
    /\ markers = <<>>

\* strip_data not called on its own.
StripIdle ==
    /\ data = <<>>
    /\ to_strip = <<>>
    /\ keep_request_type = <<>>
    /\ stripped = <<>>
    /\ stripped_twice = <<>>
    /\ spc = "idle"

\* PlaywrightScraper.scrape not called on its own.
ScrapeIdle ==
    /\ implicit_wait = FALSE
    /\ clear_cookies = FALSE
    /\ scrape_pc = "idle"
    /\ page = "none"
    /\ raised_at = "none"
    /\ open_pages = 0
    /\ scrapes = 0
    /\ with_requests = FALSE
    /\ steps_done = <<>>

\* PlaywrightScraper._interceptor not called on its own.
InterceptIdle ==
    /\ allow_exts = {}
    /\ block_exts = {}
    /\ route_path = <<>>
    /\ route_calls = <<>>
    /\ intercepted = 0

\* No page is open: nothing fires requestfinished.
HandlerIdle ==
    /\ finished = <<>>
    /\ requests = <<>>
    /\ logged = <<>>
    /\ escaped = FALSE
    /\ pending = {}
    /\ hpc = "idle"
    /\ result = <<>>

\* No Output object under study.
OutputIdle ==
    /\ out_items = <<>>
    /\ out_attrs = <<>>

\* No page against the context.
CookieIdle ==
    /\ cookie_jar = {}
    /\ cwpc = <<>>
    /\ cookies_set = {}
    /\ cdone = <<>>

Init ==
    /\ RunInit
    /\ StripIdle
    /\ ScrapeIdle
    /\ InterceptIdle
    /\ HandlerIdle
    /\ OutputIdle
    /\ CookieIdle

\* ============================================================ _curl_main

\* assert 1 <= num_conn <= 10000
\* A check of the lower end only.
ValidNumConn_NoUpper(n) == MinNumConn <= n

ValidNumConn(n) == MinNumConn <= n /\ n <= MaxNumConn

\* CurlScraper(**kwargs); the assertion on num_conn.
CurlAssert ==
    /\ scraper = "curl"
    /\ pc = "start"
    /\ pc' = IF ValidNumConn(arg_num_conn) THEN "c_setup" ELSE "failed"
    /\ UNCHANGED <<inputVars, unitVars, configVars, wrapVars, sharedVars, curlVars, pwVars>>

\* A pool one handle larger than the clamp allows.
PoolSize_OneMore(n, k) == Min(n, k) + 1

\* num_conn = min(num_conn, num_urls): the size of the handle pool.
PoolSize(n, k) == Min(n, k)

\* CurlScraper.setup() with the default configuration: the options it appends
\* to curl_options (SHARE; COOKIEFILE; SSL_VERIFYPEER, SSL_VERIFYHOST and
\* CAINFO; FOLLOWLOCATION and MAXREDIRS; CONNECTTIMEOUT, NOSIGNAL; TIMEOUT).
SetupOptions ==
    {"SHARE", "COOKIEFILE", "SSL_VERIFYPEER", "SSL_VERIFYHOST", "CAINFO",
     "FOLLOWLOCATION", "MAXREDIRS", "CONNECTTIMEOUT", "NOSIGNAL", "TIMEOUT"}

\* _curl_instance(): a new handle with every option of self.curl_options set.
\* CurlScraper.__init__ leaves curl_options empty and _curl_main never calls
\* setup(), so the list is what the constructor left.
CurlInstanceOptions == curl_options

\* get_urls, io.open(output, "wb"), the clamp, tqdm, the handle pool,
\* freelist = m.handles[:], num_processed = 0.  When pycurl.CurlMulti() or a
\* scrapper._curl_instance() raises, the exception leaves _curl_main with the
\* output file opened (and so emptied) and no pool: num_conn, freelist and cw
\* are the pool the loop runs with, and there is none.
CurlSetup ==
    /\ scraper = "curl"
    /\ pc = "c_setup"
    /\ queue' = urls
    /\ output' = <<>>
    /\ num_urls' = Len(urls)
    /\ pbar' = 0
    /\ num_processed' = 0
    /\ IF setup_ok
       THEN /\ num_conn' = PoolSize(arg_num_conn, Len(urls))
            /\ freelist' = [i \in 1..num_conn' |-> i]
            /\ cw' = [h \in 1..num_conn' |-> None]
            /\ handle_options' = [h \in 1..num_conn' |-> CurlInstanceOptions]
            /\ wbuf' = [h \in 1..num_conn' |-> {}]
            /\ pc' = "c_loop"
       ELSE /\ UNCHANGED <<num_conn, freelist, cw, handle_options, wbuf>>
            /\ pc' = "failed"
    /\ UNCHANGED <<inputVars, unitVars, curl_options, got, outcome, results, delivered, registered, c, msgs,
                   ok_list, err_list, num_q, idx, closed, hadError, pwVars>>

\* m.handles
Handles == 1..num_conn

\* while num_processed < num_urls
CurlLoopHead ==
    /\ pc = "c_loop"
    /\ pc' = IF num_processed < num_urls THEN "c_bind" ELSE "c_cleanup"
    /\ UNCHANGED <<inputVars, unitVars, configVars, wrapVars, sharedVars, curlVars, pwVars>>

\* while queue and freelist
CanBind == queue # <<>> /\ freelist # <<>>

\* queue.pop(): the job submitted last.
PopIndex_Last(q) == Len(q)

\* queue.pop(0): the position of the job the bind loop takes.
PopIndex(q) == 1

\* A pop that reads the element and leaves it in the list.
RemoveAt_Kept(q, i) == q

\* list.pop(i): the list without its element at position i.
RemoveAt(q, i) == SubSeq(q, 1, i - 1) \o SubSeq(q, i + 1, Len(q))

\* A wrapper that takes over the buffer and the headers of the handle's
\* previous wrapper.
NewWrapperData_Kept(old) == old

\* CurlWrapper.__init__: self.bytes = BytesIO(); self.headers = {}.  What the
\* buffer and the headers of a new wrapper hold, given what the handle's
\* previous wrapper held.
NewWrapperData(old) == {}

\* url = queue.pop(0); c = freelist.pop(); cw = CurlWrapper(c);
\* cw.assign(url); c.cw = cw.  assign points WRITEDATA and HEADERFUNCTION of
\* the handle at the new wrapper.
CurlPop ==
    /\ pc = "c_bind"
    /\ CanBind
    /\ queue' = RemoveAt(queue, PopIndex(queue))
    /\ c' = Last(freelist)
    /\ freelist' = Front(freelist)
    /\ cw' = [cw EXCEPT ![c'] = queue[PopIndex(queue)]]
    /\ delivered' = [delivered EXCEPT ![queue[PopIndex(queue)]] = @ + 1]
    /\ wbuf' = [wbuf EXCEPT ![c'] = NewWrapperData(@)]
    /\ pc' = "c_add"
    /\ UNCHANGED <<inputVars, unitVars, configVars, got, output, pbar, outcome, results, num_urls, num_conn,
                   num_processed, registered, msgs, ok_list, err_list, num_q,
                   idx, closed, hadError, pwVars>>

\* m.add_handle(c)
CurlAddHandle ==
    /\ pc = "c_add"
    /\ registered' = registered \cup {c}
    /\ c' = None
    /\ pc' = "c_bind"
    /\ UNCHANGED <<inputVars, unitVars, configVars, wrapVars, sharedVars, queue, freelist, num_urls, num_conn,
                   num_processed, cw, msgs, ok_list, err_list, num_q, idx,
                   closed, hadError, pwVars>>

\* the inner while ends: go on to m.perform()
CurlBindDone ==
    /\ pc = "c_bind"
    /\ ~CanBind
    /\ pc' = "c_perform"
    /\ UNCHANGED <<inputVars, unitVars, configVars, wrapVars, sharedVars, curlVars, pwVars>>

\* The handles whose completion message waits in the multi's message queue.
Messaged == {msgs[i][1] : i \in 1..Len(msgs)}

\* Inside m.perform(): the transfer of a registered handle ends, ok or in
\* error, and libcurl queues its message.  What it received for the job went
\* to the buffer and the header function the handle points at.
CurlTransferDone(h, r) ==
    /\ pc = "c_perform"
    /\ h \in registered \ Messaged
    /\ msgs' = Append(msgs, <<h, r>>)
    /\ wbuf' = [wbuf EXCEPT ![h] = @ \cup {cw[h]}]
    /\ UNCHANGED <<inputVars, unitVars, configVars, got, pc, sharedVars, queue, freelist, num_urls, num_conn,
                   num_processed, registered, cw, c, ok_list, err_list, num_q,
                   idx, closed, hadError, pwVars>>

\* m.perform() returns something other than E_CALL_MULTI_PERFORM.
CurlPerformReturn ==
    /\ pc = "c_perform"
    /\ pc' = "c_info_read"
    /\ UNCHANGED <<inputVars, unitVars, configVars, wrapVars, sharedVars, curlVars, pwVars>>

HandlesOf(batch, r) ==
    LET sel == SelectSeq(batch, LAMBDA m : m[2] = r)
    IN  [i \in 1..Len(sel) |-> sel[i][1]]

\* num_q, ok_list, err_list = m.info_read(): some of the queued messages are
\* handed out (all of them, or fewer with num_q left in the queue).
CurlInfoRead ==
    /\ pc = "c_info_read"
    /\ \E n \in (IF msgs = <<>> THEN {0} ELSE 1..Len(msgs)) :
         /\ ok_list' = HandlesOf(SubSeq(msgs, 1, n), "ok")
         /\ err_list' = HandlesOf(SubSeq(msgs, 1, n), "err")
         /\ msgs' = SubSeq(msgs, n + 1, Len(msgs))
         /\ num_q' = Len(msgs) - n
    /\ idx' = 1
    /\ pc' = "c_ok"
    /\ UNCHANGED <<inputVars, unitVars, configVars, wrapVars, sharedVars, queue, freelist, num_urls, num_conn,
                   num_processed, registered, cw, c, closed, hadError, pwVars>>

\* for c in ok_list: data = c.cw.get_result(); m.remove_handle(c)
CurlOkRemove ==
    /\ pc = "c_ok"
    /\ idx <= Len(ok_list)
    /\ c' = ok_list[idx]
    /\ registered' = registered \ {ok_list[idx]}
    /\ pc' = "c_ok_write"
    /\ UNCHANGED <<inputVars, unitVars, configVars, wrapVars, sharedVars, queue, freelist, num_urls, num_conn,
                   num_processed, cw, msgs, ok_list, err_list, num_q, idx,
                   closed, hadError, pwVars>>

\* CurlWrapper.get_result of the wrapper of handle h: request_url is the url
\* assigned to the wrapper, body and headers are what its buffer and its
\* headers dictionary hold (the jobs that data was received for).
get_result(h) == [handle |-> h, request_url |-> cw[h], data |-> wbuf[h]]

\* What the ok branch writes for the job: its record, then os.linesep.
RecordBytes(j) == <<Record(j)>> \o LineSep

\* strip_data, convert_data, output_fp.write(data), output_fp.write(linesep)
CurlOkWrite ==
    /\ pc = "c_ok_write"
    /\ output' = output \o RecordBytes(cw[c])
    /\ results' = Append(results, [job |-> cw[c], tag |-> "success"])
    /\ outcome' = [outcome EXCEPT ![cw[c]] = "ok"]
    /\ got' = Append(got, get_result(c))
    /\ pc' = "c_ok_free"
    /\ UNCHANGED <<inputVars, unitVars, configVars, wbuf, pbar, delivered, curlVars, pwVars>>

\* An ok branch that does not give the handle back.
OkReleased_Dropped(fl, h) == fl

\* The free list after freelist.append(c) in the ok branch.
OkReleased(fl, h) == Append(fl, h)

\* freelist.append(c); pbar.update(1)
CurlOkFree ==
    /\ pc = "c_ok_free"
    /\ freelist' = OkReleased(freelist, c)
    /\ pbar' = pbar + 1
    /\ c' = None
    /\ idx' = idx + 1
    /\ pc' = "c_ok"
    /\ UNCHANGED <<inputVars, unitVars, configVars, wrapVars, output, outcome, results, delivered, queue,
                   num_urls, num_conn, num_processed, registered, cw, msgs,
                   ok_list, err_list, num_q, closed, hadError, pwVars>>

\* the for over ok_list ends: go on to err_list
CurlOkDone ==
    /\ pc = "c_ok"
    /\ idx > Len(ok_list)
    /\ idx' = 1
    /\ pc' = "c_err"
    /\ UNCHANGED <<inputVars, unitVars, configVars, wrapVars, sharedVars, queue, freelist, num_urls, num_conn,
                   num_processed, registered, cw, c, msgs, ok_list, err_list,
                   num_q, closed, hadError, pwVars>>

\* The error branch without its m.remove_handle(c).
ErrRemoved_Kept(reg, h) == reg

\* The multi's handle set after m.remove_handle(h) in the error branch.
ErrRemoved(reg, h) == reg \ {h}

\* An error branch that writes a record for the failed job all the same.
ErrorBranchResults_Record(res, j) == Append(res, [job |-> j, tag |-> "success"])

\* What the error branch emits for the job: errno and errmsg are not used,
\* nothing is written to the file and nothing is returned.
ErrorBranchResults(res, j) == res

\* for c, errno, errmsg in err_list: m.remove_handle(c)
CurlErrRemove ==
    /\ pc = "c_err"
    /\ idx <= Len(err_list)
    /\ c' = err_list[idx]
    /\ registered' = ErrRemoved(registered, err_list[idx])
    /\ outcome' = [outcome EXCEPT ![cw[err_list[idx]]] = "err"]
    /\ hadError' = hadError \cup {err_list[idx]}
    /\ results' = ErrorBranchResults(results, cw[err_list[idx]])
    /\ pc' = "c_err_free"
    /\ UNCHANGED <<inputVars, unitVars, configVars, wrapVars, output, pbar, delivered, queue, freelist,
                   num_urls, num_conn, num_processed, cw, msgs, ok_list,
                   err_list, num_q, idx, closed, pwVars>>

\* An error branch that does not give the handle back.
ErrReleased_Dropped(fl, h) == fl

\* The free list after freelist.append(c) in the error branch.
ErrReleased(fl, h) == Append(fl, h)

\* An error branch that leaves the progress bar as it is.
ErrProgress_Skipped(n) == n

\* pbar.update(1) in the error branch
ErrProgress(n) == n + 1

\* freelist.append(c); pbar.update(1)
CurlErrFree ==
    /\ pc = "c_err_free"
    /\ freelist' = ErrReleased(freelist, c)
    /\ pbar' = ErrProgress(pbar)
    /\ c' = None
    /\ idx' = idx + 1
    /\ pc' = "c_err"
    /\ UNCHANGED <<inputVars, unitVars, configVars, wrapVars, output, outcome, results, delivered, queue,
                   num_urls, num_conn, num_processed, registered, cw, msgs,
                   ok_list, err_list, num_q, closed, hadError, pwVars>>

\* A count that leaves out the transfers that ended in error.
Processed_OkOnly(n, oks, errs) == n + Len(oks)

\* num_processed = num_processed + len(ok_list) + len(err_list)
Processed(n, oks, errs) == n + Len(oks) + Len(errs)

\* the count is updated; if num_q == 0: break, else info_read() again
CurlBatchEnd ==
    /\ pc = "c_err"
    /\ idx > Len(err_list)
    /\ num_processed' = Processed(num_processed, ok_list, err_list)
    /\ ok_list' = <<>>
    /\ err_list' = <<>>
    /\ idx' = 0
    /\ pc' = IF num_q = 0 THEN "c_select" ELSE "c_info_read"
    /\ UNCHANGED <<inputVars, unitVars, configVars, wrapVars, sharedVars, queue, freelist, num_urls, num_conn,
                   registered, cw, c, msgs, num_q, closed, hadError, pwVars>>

\* m.select(1.0)
CurlSelect ==
    /\ pc = "c_select"
    /\ pc' = "c_loop"
    /\ UNCHANGED <<inputVars, unitVars, configVars, wrapVars, sharedVars, curlVars, pwVars>>

\* A cleanup that closes the handles of m.handles and then those of the free
\* list, which are the same handles.
ClosedAtShutdown_Twice(n) == [i \in 1..n |-> i] \o [i \in 1..n |-> i]

\* for c in m.handles: c.close(): the close calls, in order.
ClosedAtShutdown(n) == [i \in 1..n |-> i]

\* for c in m.handles: c.close(); m.close(); pbar.close()
CurlCleanup ==
    /\ pc = "c_cleanup"
    /\ closed' = closed \o ClosedAtShutdown(num_conn)
    /\ pc' = "c_truncate"
    /\ UNCHANGED <<inputVars, unitVars, configVars, wrapVars, sharedVars, queue, freelist, num_urls, num_conn,
                   num_processed, registered, cw, c, msgs, ok_list, err_list,
                   num_q, idx, hadError, pwVars>>

\* A run that leaves the file as the loop wrote it.
FinalTruncate_None(f) == f

\* The file after output_fp.truncate(output_fp.tell() - len(os.linesep)).
FinalTruncate(f) == CutLast(f)

\* truncate, close.  A negative size makes truncate raise, and nothing in
\* _curl_main catches it.
CurlTruncate ==
    /\ pc = "c_truncate"
    /\ IF TruncateSize(output) < 0
       THEN /\ pc' = "crashed"
            /\ UNCHANGED output
       ELSE /\ pc' = "done"
            /\ output' = FinalTruncate(output)
    /\ UNCHANGED <<inputVars, unitVars, configVars, wrapVars, pbar, outcome, results, delivered, curlVars, pwVars>>

CurlNext ==
    \/ CurlAssert
    \/ CurlSetup
    \/ CurlLoopHead
    \/ CurlPop
    \/ CurlAddHandle
    \/ CurlBindDone
    \/ \E h \in Handles, r \in {"ok", "err"} : CurlTransferDone(h, r)
    \/ CurlPerformReturn
    \/ CurlInfoRead
    \/ CurlOkRemove
    \/ CurlOkWrite
    \/ CurlOkFree
    \/ CurlOkDone
    \/ CurlErrRemove
    \/ CurlErrFree
    \/ CurlBatchEnd
    \/ CurlSelect
    \/ CurlCleanup
    \/ CurlTruncate

CurlInit == Init /\ scraper = "curl"

SpecCurl == CurlInit /\ [][CurlNext]_vars

\* The control loop keeps running (it is the only thread), and every
\* registered transfer eventually ends: libcurl ends it inside some perform().
FairSpecCurl ==
    /\ SpecCurl
    /\ WF_vars(CurlNext)
    /\ \A h \in 1..MaxJobs : SF_vars(\E r \in {"ok", "err"} : CurlTransferDone(h, r))

\* ====================================== _playwright_main, _playwright_worker

\* A task group with one worker more than num_pages.
Workers_OneMore == 1..(arg_num_pages + 1)

\* The worker tasks the task group holds.
Workers == 1..arg_num_pages

\* asyncio is cooperative: a worker runs only while the main task is suspended
\* (in job_queue.join(), or in the task group's exit waiting for its tasks).
\* job_queue.put on an unbounded queue never suspends.
MainSuspended == pc \in {"p_join", "p_tg_exit"}

\* A setup whose failure is dropped like those inside the try block: the run
\* goes on to pbar.close() and s.close().
AfterSetup_Swallowed(launched) == IF launched THEN "p_open" ELSE "p_close"

\* await s.setup(playwright) is outside the try block: when the launch raises
\* nothing catches it and the exception leaves _playwright_main.
AfterSetup(launched) == IF launched THEN "p_open" ELSE "failed"

\* get_urls, PlaywrightScraper(**kwargs), async_playwright(), s.setup()
PwStart ==
    /\ scraper = "playwright"
    /\ pc = "start"
    /\ pc' = AfterSetup(setup_ok)
    /\ UNCHANGED <<inputVars, unitVars, configVars, wrapVars, sharedVars, curlVars, pwVars>>

\* job_queue = asyncio.Queue(); tqdm; aiofiles.open(output_file, "wb")
PwOpen ==
    /\ pc = "p_open"
    /\ job_queue' = <<>>
    /\ unfinished_tasks' = 0
    /\ pbar' = 0
    /\ output' = <<>>
    /\ pc' = "p_spawn"
    /\ UNCHANGED <<inputVars, unitVars, configVars, wrapVars, outcome, results, delivered, curlVars, wpc, wurl,
                   markers>>

\* for _ in range(num_pages): tg.create_task(_playwright_worker(...))
PwSpawn ==
    /\ pc = "p_spawn"
    /\ wpc' = [w \in Workers |-> "get"]
    /\ wurl' = [w \in Workers |-> None]
    /\ markers' = [w \in Workers |-> 0]
    /\ pc' = "p_put_urls"
    /\ UNCHANGED <<inputVars, unitVars, configVars, wrapVars, sharedVars, curlVars, job_queue, unfinished_tasks>>

\* A put that places the items at the head of the queue.
QueuePut_Front(q, items) == items \o q

\* Queue.put_nowait: the item joins the queue and counts as unfinished.
QueuePut(q, items) == q \o items

\* for url in urls: await job_queue.put(url)
PwPutUrls ==
    /\ pc = "p_put_urls"
    /\ job_queue' = QueuePut(job_queue, urls)
    /\ unfinished_tasks' = unfinished_tasks + Len(urls)
    /\ pc' = "p_put_markers"
    /\ UNCHANGED <<inputVars, unitVars, configVars, wrapVars, sharedVars, curlVars, wpc, wurl, markers>>

\* The stop markers: one None per page.
StopMarkers(m) == [i \in 1..m |-> None]

\* for _ in range(num_pages): await job_queue.put(None)
PwPutMarkers ==
    /\ pc = "p_put_markers"
    /\ job_queue' = QueuePut(job_queue, StopMarkers(arg_num_pages))
    /\ unfinished_tasks' = unfinished_tasks + arg_num_pages
    /\ pc' = "p_join"
    /\ UNCHANGED <<inputVars, unitVars, configVars, wrapVars, sharedVars, curlVars, wpc, wurl, markers>>

\* Queue.join(): returns once every item put has been marked task_done.
JoinReady == unfinished_tasks = 0

\* await job_queue.join()
PwJoin ==
    /\ pc = "p_join"
    /\ JoinReady
    /\ pc' = "p_tg_exit"
    /\ UNCHANGED <<inputVars, unitVars, configVars, wrapVars, sharedVars, curlVars, pwVars>>

AllWorkersExited == \A w \in DOMAIN wpc : wpc[w] = "exited"

\* the end of "async with asyncio.TaskGroup()": waits for every task
PwTaskGroupExit ==
    /\ pc = "p_tg_exit"
    /\ AllWorkersExited
    /\ pc' = "p_truncate"
    /\ UNCHANGED <<inputVars, unitVars, configVars, wrapVars, sharedVars, curlVars, pwVars>>

\* _tell = await output_fp.tell(); await output_fp.truncate(_tell - linesep).
\* A negative size raises inside the try; "except* Exception: pass" drops it.
PwTruncate ==
    /\ pc = "p_truncate"
    /\ output' = IF TruncateSize(output) < 0 THEN output ELSE FinalTruncate(output)
    /\ pc' = "p_close"
    /\ UNCHANGED <<inputVars, unitVars, configVars, wrapVars, pbar, outcome, results, delivered, curlVars, pwVars>>

\* pbar.close(); await s.close()
PwClose ==
    /\ pc = "p_close"
    /\ pc' = "done"
    /\ UNCHANGED <<inputVars, unitVars, configVars, wrapVars, sharedVars, curlVars, pwVars>>

\* A get that reads the head and leaves it in the queue.
QueueAfterGet_Peek(q) == q

\* Queue.get(): the item at the head leaves the queue.
QueueAfterGet(q) == Tail(q)

\* url = await queue.get(); if url is None: return
WorkerGet(w) ==
    /\ MainSuspended
    /\ wpc[w] = "get"
    /\ job_queue # <<>>
    /\ job_queue' = QueueAfterGet(job_queue)
    /\ IF Head(job_queue) = None
       THEN /\ wpc' = [wpc EXCEPT ![w] = "exited"]
            /\ markers' = [markers EXCEPT ![w] = @ + 1]
            /\ UNCHANGED <<wurl, delivered>>
       ELSE /\ wpc' = [wpc EXCEPT ![w] = "scrape"]
            /\ wurl' = [wurl EXCEPT ![w] = Head(job_queue)]
            /\ delivered' = [delivered EXCEPT ![Head(job_queue)] = @ + 1]
            /\ UNCHANGED markers
    /\ UNCHANGED <<inputVars, unitVars, configVars, wrapVars, pc, output, pbar, outcome, results, curlVars,
                   unfinished_tasks>>

\* data = await _playwright_scrape_task(...) returns: scrape, strip_data and
\* convert_data all succeeded.
WorkerScraped(w) ==
    /\ MainSuspended
    /\ wpc[w] = "scrape"
    /\ wpc' = [wpc EXCEPT ![w] = "write"]
    /\ UNCHANGED <<inputVars, unitVars, configVars, wrapVars, pc, sharedVars, curlVars, job_queue,
                   unfinished_tasks, wurl, markers>>

\* await fp.write(data)
WorkerWrite(w) ==
    /\ MainSuspended
    /\ wpc[w] = "write"
    /\ output' = Append(output, Record(wurl[w]))
    /\ results' = Append(results, [job |-> wurl[w], tag |-> "success"])
    /\ wpc' = [wpc EXCEPT ![w] = "write_sep"]
    /\ UNCHANGED <<inputVars, unitVars, configVars, wrapVars, pc, pbar, outcome, delivered, curlVars, job_queue,
                   unfinished_tasks, wurl, markers>>

\* await fp.write(bytes(os.linesep, encoding="utf-8")): the try block is over
WorkerWriteSep(w) ==
    /\ MainSuspended
    /\ wpc[w] = "write_sep"
    /\ output' = output \o LineSep
    /\ outcome' = [outcome EXCEPT ![wurl[w]] = "ok"]
    /\ wpc' = [wpc EXCEPT ![w] = "finally"]
    /\ UNCHANGED <<inputVars, unitVars, configVars, wrapVars, pc, pbar, results, delivered, curlVars, job_queue,
                   unfinished_tasks, wurl, markers>>

\* The exceptions a statement of the try block can raise: playwright's Error
\* and TimeoutError from the scrape, TypeError from the serialisation, OSError
\* from a write.  All are subclasses of Exception.
RaisedAt(site) ==
    IF site = "scrape" THEN {"Error", "TimeoutError", "TypeError"} ELSE {"OSError"}

\* A handler for timeouts only (except TimeoutError).
WorkerCatches_TimeoutOnly(e) == e = "TimeoutError"

\* except Exception as e: pass
WorkerCatches(e) == e \in {"Error", "TimeoutError", "TypeError", "OSError"}

\* A statement of the try block raises.  The handler swallows what it catches;
\* an exception it does not catch leaves the worker, and the task group then
\* cancels the other workers and the main task, whose "except*" drops the group.
WorkerRaise(w) ==
    /\ MainSuspended
    /\ wpc[w] \in {"scrape", "write", "write_sep"}
    /\ \E e \in RaisedAt(wpc[w]) :
         IF WorkerCatches(e)
         THEN /\ wpc' = [wpc EXCEPT ![w] = "finally"]
              /\ UNCHANGED pc
         ELSE /\ wpc' = [v \in DOMAIN wpc |->
                           IF v = w THEN "crashed"
                           ELSE IF wpc[v] = "exited" THEN "exited" ELSE "cancelled"]
              /\ pc' = "p_close"
    /\ outcome' = [outcome EXCEPT ![wurl[w]] = "err"]
    /\ UNCHANGED <<inputVars, unitVars, configVars, wrapVars, output, pbar, results, delivered, curlVars,
                   job_queue, unfinished_tasks, wurl, markers>>

\* Queue.task_done()
TaskDone(n) == n - 1

\* finally: pbar.update(1); queue.task_done(); back to the top of the loop
WorkerFinally(w) ==
    /\ MainSuspended
    /\ wpc[w] = "finally"
    /\ pbar' = pbar + 1
    /\ unfinished_tasks' = TaskDone(unfinished_tasks)
    /\ wurl' = [wurl EXCEPT ![w] = None]
    /\ wpc' = [wpc EXCEPT ![w] = "get"]
    /\ UNCHANGED <<inputVars, unitVars, configVars, wrapVars, pc, output, outcome, results, delivered, curlVars,
                   job_queue, markers>>

PwNext ==
    \/ PwStart
    \/ PwOpen
    \/ PwSpawn
    \/ PwPutUrls
    \/ PwPutMarkers
    \/ PwJoin
    \/ PwTaskGroupExit
    \/ PwTruncate
    \/ PwClose
    \/ \E w \in DOMAIN wpc : WorkerGet(w)
    \/ \E w \in DOMAIN wpc : WorkerScraped(w)
    \/ \E w \in DOMAIN wpc : WorkerWrite(w)
    \/ \E w \in DOMAIN wpc : WorkerWriteSep(w)
    \/ \E w \in DOMAIN wpc : WorkerRaise(w)
    \/ \E w \in DOMAIN wpc : WorkerFinally(w)

PwInit == Init /\ scraper = "playwright"

SpecPw == PwInit /\ [][PwNext]_vars

\* main(): one of the two engines, chosen by --scraper
Next == CurlNext \/ PwNext

Spec == Init /\ [][Next]_vars

\* ============================================================= strip_data
\* A page is a mapping from field names to values (an Output, which is an
\* OrderedDict).  A value is [kind, items]: kind is what isinstance tells apart
\* ("list", "tuple", "dict"; "bytes" and "none" are "anything else"), items are
\* its elements.  An element is <<position, tag>>; for a request the tag is
\* its resource_type ("none" for the request a curl result holds).
ResourceTypes == {"document", "image"}

SeqsUpTo(S, n) == UNION {[1..m -> S] : m \in 0..n}

Value(k, xs) == [kind |-> k, items |-> xs]

NoneValue == Value("none", <<>>)

SomeBytes == Value("bytes", << <<1, "bytes">> >>)

SomeDict == Value("dict", << <<1, "key">> >>)

\* The requests a page can hold: a list (playwright) or a tuple (curl) of up
\* to MaxRequests requests.
RequestLists ==
    {Value(k, [i \in 1..Len(rt) |-> <<i, rt[i]>>]) :
        k \in {"list", "tuple"},
        rt \in SeqsUpTo(ResourceTypes \cup {"none"}, MaxRequests)}

Pages ==
    {[f \in {"body", "requests", "headers"} |->
        CASE f = "body" -> b
          [] f = "requests" -> r
          [] f = "headers" -> h] :
        b \in {SomeBytes, NoneValue},
        r \in RequestLists,
        h \in {SomeDict, Value("dict", <<>>)}}

\* The names --strip-data can give: the fields of the page and a name that is
\* no field of it.
StripNames == {"body", "requests", "headers", "nofield"}

\* A filter that drops the first request and keeps the rest.
KeepRequests_DropFirst(items, keep) ==
    IF items = <<>> THEN <<>> ELSE Tail(items)

\* [_r for _r in data[_var] if _r.resource_type in keep_request_type]
KeepRequests(items, keep) ==
    SelectSeq(items, LAMBDA r : r[2] \in Range(keep))

\* The isinstance chain: [] for a list or tuple, {} for a dict, None otherwise.
ZeroValue(v) ==
    IF v.kind \in {"list", "tuple"} THEN Value("list", <<>>)
    ELSE IF v.kind = "dict" THEN Value("dict", <<>>)
    ELSE NoneValue

\* A loop body that assigns without the "in data" test: the name becomes a
\* field.
StripField_AddsField(d, var, keep) ==
    IF var = "requests" /\ keep # <<>>
    THEN [d EXCEPT !["requests"] = Value("list", KeepRequests(@.items, keep))]
    ELSE [f \in DOMAIN d \cup {var} |->
            IF f = var THEN (IF f \in DOMAIN d THEN ZeroValue(d[f]) ELSE NoneValue)
            ELSE d[f]]

\* The body of "for _var in to_strip".
StripField(d, var, keep) ==
    IF var = "requests" /\ keep # <<>>
    THEN [d EXCEPT !["requests"] = Value("list", KeepRequests(@.items, keep))]
    ELSE IF var \in DOMAIN d
    THEN [d EXCEPT ![var] = ZeroValue(@)]
    ELSE d

RECURSIVE strip_data(_, _, _)
strip_data(d, names, keep) ==
    IF names = <<>> THEN d
    ELSE strip_data(StripField(d, Head(names), keep), Tail(names), keep)

\* The arguments of a call of strip_data.
StripInit ==
    /\ RunInit
    /\ scraper = "curl"
    /\ urls = <<>>
    /\ arg_num_conn = MinNumConn
    /\ setup_ok
    /\ ScrapeIdle
    /\ InterceptIdle
    /\ HandlerIdle
    /\ OutputIdle
    /\ CookieIdle
    /\ data \in Pages
    /\ to_strip \in SeqsUpTo(StripNames, MaxStrip)
    /\ keep_request_type \in SeqsUpTo(ResourceTypes, MaxKeep)
    /\ stripped = <<>>
    /\ stripped_twice = <<>>
    /\ spc = "call"

\* data = strip_data(data, to_strip, content_to_keep)
StripCall ==
    /\ spc = "call"
    /\ stripped' = strip_data(data, to_strip, keep_request_type)
    /\ spc' = "once"
    /\ UNCHANGED <<runVars, besidesStrip, data, to_strip,
                   keep_request_type, stripped_twice>>

\* strip_data applied to its own result, with the same arguments
StripAgain ==
    /\ spc = "once"
    /\ stripped_twice' = strip_data(stripped, to_strip, keep_request_type)
    /\ spc' = "twice"
    /\ UNCHANGED <<runVars, besidesStrip, data, to_strip,
                   keep_request_type, stripped>>

StripNext == StripCall \/ StripAgain

SpecStrip == StripInit /\ [][StripNext]_vars

\* ================================================= PlaywrightScraper.scrape
\* One worker's calls of scrape, one after the other, on the shared context.
\* page is the page of the current call: "none", "open" or "closed".

\* A scrape that installs the route interceptor after the navigation.
ScrapeSteps_RouteAfterGoto ==
    <<"new_page", "on_requestfinished", "wait_for_timeout", "goto", "route",
      "content", "screenshot", "full_screenshot", "clear_cookies", "close">>

\* The statements of scrape that act on the page, in the order scrape runs
\* them: new_page, page.route, page.on("requestfinished"), wait_for_timeout,
\* goto, content, screenshot, screenshot(full_page=True), clear_cookies, close.
ScrapeSteps ==
    <<"new_page", "route", "on_requestfinished", "wait_for_timeout", "goto",
      "content", "screenshot", "full_screenshot", "clear_cookies", "close">>

\* Whether scrape runs the statement at all: "if self.with_requests",
\* "if self.implicit_wait", "if self.clear_cookies".
Runs(step) ==
    CASE step = "on_requestfinished" -> with_requests
      [] step = "wait_for_timeout" -> implicit_wait
      [] step = "clear_cookies" -> clear_cookies
      [] OTHER -> TRUE

\* The statement that follows, skipping those the options switch off.
RECURSIVE NextStepFrom(_)
NextStepFrom(i) ==
    IF i > Len(ScrapeSteps) THEN "end"
    ELSE IF Runs(ScrapeSteps[i]) THEN ScrapeSteps[i]
    ELSE NextStepFrom(i + 1)

StepIndex(step) == CHOOSE i \in 1..Len(ScrapeSteps) : ScrapeSteps[i] = step

After(step) == NextStepFrom(StepIndex(step) + 1)

\* The worker calls scrape for its next job.
ScrapeCall ==
    /\ scrape_pc \in {"call", "end"}
    /\ scrapes < MaxScrapes
    /\ scrapes' = scrapes + 1
    /\ scrape_pc' = "new_page"
    /\ page' = "none"
    /\ raised_at' = "none"
    /\ steps_done' = <<>>
    /\ UNCHANGED <<runVars, besidesScrape,
                   scrapeOpts, open_pages>>

\* page = await self.context.new_page()
ScrapeNewPage ==
    /\ scrape_pc = "new_page"
    /\ \E ok \in BOOLEAN :
         IF ok
         THEN /\ page' = "open"
              /\ open_pages' = open_pages + 1
              /\ scrape_pc' = After("new_page")
              /\ steps_done' = Append(steps_done, "new_page")
              /\ UNCHANGED raised_at
         ELSE /\ scrape_pc' = "end"
              /\ raised_at' = "new_page"
              /\ UNCHANGED <<page, open_pages, steps_done>>
    /\ UNCHANGED <<runVars, besidesScrape,
                   scrapeOpts, scrapes>>

\* if self.with_requests: page.on("requestfinished", request_handler): the
\* registration is a plain call, it awaits nothing.
ScrapeObserve ==
    /\ scrape_pc = "on_requestfinished"
    /\ scrape_pc' = After("on_requestfinished")
    /\ steps_done' = Append(steps_done, "on_requestfinished")
    /\ UNCHANGED <<runVars, besidesScrape,
                   scrapeOpts, page, raised_at, open_pages, scrapes>>

\* The statements outside the try block: page.route, page.wait_for_timeout,
\* page.content, both page.screenshot calls, context.clear_cookies.  One that
\* raises leaves scrape at once: nothing encloses it.
Unguarded == {"route", "wait_for_timeout", "content", "screenshot",
              "full_screenshot", "clear_cookies"}

ScrapeUnguarded ==
    /\ scrape_pc \in Unguarded
    /\ \E ok \in BOOLEAN :
         IF ok
         THEN /\ scrape_pc' = After(scrape_pc)
              /\ steps_done' = Append(steps_done, scrape_pc)
              /\ UNCHANGED raised_at
         ELSE /\ scrape_pc' = "end"
              /\ raised_at' = scrape_pc
              /\ UNCHANGED steps_done
    /\ UNCHANGED <<runVars, besidesScrape,
                   scrapeOpts, page, open_pages, scrapes>>

\* try: await page.goto(url)  except Exception as e: await page.close(); raise e
ScrapeGoto ==
    /\ scrape_pc = "goto"
    /\ \E ok \in BOOLEAN :
         IF ok
         THEN /\ scrape_pc' = After("goto")
              /\ steps_done' = Append(steps_done, "goto")
              /\ UNCHANGED <<raised_at, page, open_pages>>
         ELSE /\ scrape_pc' = "end"
              /\ raised_at' = "goto"
              /\ page' = "closed"
              /\ open_pages' = open_pages - 1
              /\ steps_done' = Append(steps_done, "close")
    /\ UNCHANGED <<runVars, besidesScrape,
                   scrapeOpts, scrapes>>

\* await page.close(); return result
ScrapeClose ==
    /\ scrape_pc = "close"
    /\ page' = "closed"
    /\ open_pages' = open_pages - 1
    /\ scrape_pc' = "end"
    /\ steps_done' = Append(steps_done, "close")
    /\ UNCHANGED <<runVars, besidesScrape,
                   scrapeOpts, raised_at, scrapes>>

\* A scraper with its options (--implicit_wait, clear_cookies, with_requests),
\* set up and about to be called by a worker.
ScrapeInit ==
    /\ RunInit
    /\ scraper = "playwright"
    /\ urls = <<>>
    /\ arg_num_pages = 1
    /\ setup_ok
    /\ StripIdle
    /\ InterceptIdle
    /\ HandlerIdle
    /\ OutputIdle
    /\ CookieIdle
    /\ implicit_wait \in BOOLEAN
    /\ clear_cookies \in BOOLEAN
    /\ with_requests \in BOOLEAN
    /\ scrape_pc = "call"
    /\ page = "none"
    /\ raised_at = "none"
    /\ open_pages = 0
    /\ scrapes = 0
    /\ steps_done = <<>>

ScrapeNext ==
    \/ ScrapeCall
    \/ ScrapeNewPage
    \/ ScrapeObserve
    \/ ScrapeUnguarded
    \/ ScrapeGoto
    \/ ScrapeClose

SpecScrape == ScrapeInit /\ [][ScrapeNext]_vars

\* ========================================== PlaywrightScraper._interceptor
\* A path is the sequence of its parts, an extension a sequence of one part;
\* allow_exts and block_exts are tuples of extensions (() by default).
Exts == {<<".js">>, <<".png">>}

Paths == {<<"/">>, <<"/", "a">>, <<"/", "a", ".js">>, <<"/", "a", ".png">>}

\* str.endswith(suffix)
EndsWith(p, suf) ==
    /\ Len(suf) <= Len(p)
    /\ SubSeq(p, Len(p) - Len(suf) + 1, Len(p)) = suf

\* str.endswith(tuple): true when the string ends with one of them; false
\* for the empty tuple.
EndsWithAny(p, sufs) == \E suf \in sufs : EndsWith(p, suf)

\* An interceptor that lets through only what the allow list names.
Interceptor_FailClosed(p, allow, block) ==
    IF EndsWithAny(p, allow) THEN <<"continue">> ELSE <<"abort">>

\* _interceptor: the calls it makes on the route, in order.  The if/elif makes
\* at most one call; "await route.continue_()" after it is not in an else.
Interceptor(p, allow, block) ==
    (IF EndsWithAny(p, allow) THEN <<"continue">>
     ELSE IF EndsWithAny(p, block) THEN <<"abort">>
     ELSE <<>>) \o <<"continue">>

\* A scraper with its two lists, its page about to make sub-requests.
InterceptInit ==
    /\ RunInit
    /\ scraper = "playwright"
    /\ urls = <<>>
    /\ arg_num_pages = 1
    /\ setup_ok
    /\ StripIdle
    /\ ScrapeIdle
    /\ HandlerIdle
    /\ OutputIdle
    /\ CookieIdle
    /\ allow_exts \in SUBSET Exts
    /\ block_exts \in SUBSET Exts
    /\ route_path = <<>>
    /\ route_calls = <<>>
    /\ intercepted = 0

\* The page makes a sub-request and the route "**" hands it to _interceptor.
Intercept ==
    /\ intercepted < MaxSubRequests
    /\ intercepted' = intercepted + 1
    /\ \E p \in Paths :
         /\ route_path' = p
         /\ route_calls' = Interceptor(p, allow_exts, block_exts)
    /\ UNCHANGED <<runVars, besidesIntercept, allow_exts, block_exts>>

SpecIntercept == InterceptInit /\ [][Intercept]_vars

\* ====================================== PlaywrightScraper.request_handler
\* The status of a response; 0 stands for an exchange without one.
Statuses == {200, 304, 404}

\* The awaited reads of a response that can raise.
Reads == {"security_details", "body", "all_headers"}

\* What "await request.response()" returns, None or a response, and the read
\* of it that raises if it is made ("none": none does).
NoResponse == [responded |-> FALSE, status |-> 0, fail |-> "none"]

Exchanges ==
    {NoResponse} \cup [responded : {TRUE}, status : Statuses, fail : Reads \cup {"none"}]

\* The outcome of a call: it returned a value or raised an exception.
Returned(v) == [raised |-> FALSE, value |-> <<v>>, exc |-> "none"]

Raised(e) == [raised |-> TRUE, value |-> <<>>, exc |-> e]

\* RequestOutput of exchange i; response is <<>> for None, else the
\* ResponseOutput.
RequestOutput(i, resp, cert) == [exchange |-> i, response |-> resp, cert |-> cert]

ResponseOutput(x) == [status_code |-> x.status, body |-> "body", headers |-> "headers"]

\* request_handler.  Line 89 reads _response.security_details() before the
\* "if _response" of line 90: on None it raises AttributeError.
request_handler(x, i) ==
    IF ~x.responded THEN Raised("AttributeError")
    ELSE IF x.fail = "security_details" THEN Raised("Error")
    ELSE IF x.status = 200
    THEN IF x.fail \in {"body", "all_headers"} THEN Raised("Error")
         ELSE Returned(RequestOutput(i, <<ResponseOutput(x)>>, "cert"))
    ELSE Returned(RequestOutput(i, <<>>, "{}"))

\* The page is loading with the callback registered (with_requests).
HandlerInit ==
    /\ RunInit
    /\ scraper = "playwright"
    /\ urls = <<>>
    /\ arg_num_pages = 1
    /\ setup_ok
    /\ StripIdle
    /\ InterceptIdle
    /\ implicit_wait = FALSE
    /\ clear_cookies = FALSE
    /\ with_requests = TRUE
    /\ scrape_pc = "goto"
    /\ page = "open"
    /\ raised_at = "none"
    /\ open_pages = 1
    /\ scrapes = 1
    /\ steps_done = <<"new_page", "route", "on_requestfinished">>
    /\ finished = <<>>
    /\ requests = <<>>
    /\ logged = <<>>
    /\ escaped = FALSE
    /\ pending = {}
    /\ hpc = "loading"
    /\ result = <<>>
    /\ OutputIdle
    /\ CookieIdle

\* An exchange finishes and the page fires requestfinished: the callback of
\* scrape is a coroutine function, the event starts it as a task of its own
\* and it suspends at its first await.
RequestFinished ==
    /\ hpc = "loading"
    /\ Len(finished) < MaxSubRequests
    /\ \E x \in Exchanges : finished' = Append(finished, x)
    /\ pending' = pending \cup {Len(finished) + 1}
    /\ UNCHANGED <<runVars, besidesHandler, scrapeVars,
                   requests, logged, escaped, hpc, result>>

\* The last await of one callback returns, or one of its awaits raises: it
\* appends what request_handler returned, or logs what it raised.  Callbacks
\* finish in any order.  Once scrape has built its result the page may be
\* closed, and then the awaits of a callback raise.
HandlerDone ==
    /\ hpc \in {"loading", "built"}
    /\ \E i \in pending :
         \E page_closed \in {b \in BOOLEAN : b => hpc = "built"} :
           LET r == IF page_closed THEN Raised("TargetClosedError")
                    ELSE request_handler(finished[i], i) IN
           /\ pending' = pending \ {i}
           /\ requests' = IF r.raised THEN requests ELSE requests \o r.value
           /\ logged' = IF r.raised THEN Append(logged, r.exc) ELSE logged
    /\ escaped' = FALSE
    /\ UNCHANGED <<runVars, besidesHandler, scrapeVars, finished, hpc, result>>

\* scrape builds ScraperOutput(requests=_requests, ...): the result holds the
\* list itself, not a copy.
HandlerBuild ==
    /\ hpc = "loading"
    /\ hpc' = "built"
    /\ UNCHANGED <<runVars, besidesHandler, scrapeVars,
                   finished, requests, logged, escaped, pending, result>>

\* The worker serialises the result (json_dumps): the list as it is then.
HandlerSerialise ==
    /\ hpc = "built"
    /\ hpc' = "written"
    /\ result' = requests
    /\ UNCHANGED <<runVars, besidesHandler, scrapeVars,
                   finished, requests, logged, escaped, pending>>

HandlerNext ==
    \/ RequestFinished
    \/ HandlerDone
    \/ HandlerBuild
    \/ HandlerSerialise

SpecHandler == HandlerInit /\ [][HandlerNext]_vars

\* ================================================================= Output
\* An Output is an OrderedDict that is a dataclass too: a field lives twice,
\* as an item of the dictionary and as an attribute of the instance.
OutFields == {"url", "body", "requests"}

OutValues == {NoneValue, SomeBytes, SomeDict}

\* The object after construction: the generated __init__ assigns the
\* attributes, __post_init__ copies each into the dictionary
\* (self[field.name] = getattr(self, field.name)).
OutputInit ==
    /\ RunInit
    /\ scraper = "curl"
    /\ urls = <<>>
    /\ arg_num_conn = MinNumConn
    /\ setup_ok
    /\ StripIdle
    /\ ScrapeIdle
    /\ InterceptIdle
    /\ HandlerIdle
    /\ out_attrs \in [OutFields -> OutValues]
    /\ out_items = out_attrs
    /\ CookieIdle

\* Output.__setattr__: the item follows only "if name in self.keys() and
\* value is not None"; the attribute is always set.
SetAttr ==
    \E name \in OutFields, value \in OutValues :
        /\ out_items' = IF name \in DOMAIN out_items /\ value # NoneValue
                        THEN [out_items EXCEPT ![name] = value]
                        ELSE out_items
        /\ out_attrs' = [out_attrs EXCEPT ![name] = value]
        /\ UNCHANGED <<runVars, besidesOutput>>

\* Output.__setitem__: the item and the attribute.
SetItem ==
    \E key \in OutFields, value \in OutValues :
        /\ out_items' = [out_items EXCEPT ![key] = value]
        /\ out_attrs' = [out_attrs EXCEPT ![key] = value]
        /\ UNCHANGED <<runVars, besidesOutput>>

\* Output.__getitem__(k) for a str k; getattr(obj, k).
GetItem(k) == out_items[k]

GetAttr(k) == out_attrs[k]

OutputNext == SetAttr \/ SetItem

SpecOutput == OutputInit /\ [][OutputNext]_vars

\* ============================================ the shared browser context
\* setup makes one context (self.context) and every call of scrape opens its
\* page in it: the workers' pages share the context's cookies.  A cookie is
\* named by the worker whose job set it.

\* await self.context.clear_cookies(): the context keeps no cookie.
ContextCleared(jar, w) == {}

\* The workers of a run with num_pages pages, about to call scrape.
CookieInit ==
    /\ RunInit
    /\ scraper = "playwright"
    /\ urls = <<>>
    /\ arg_num_pages \in 2..MaxPages
    /\ setup_ok
    /\ StripIdle
    /\ InterceptIdle
    /\ HandlerIdle
    /\ OutputIdle
    /\ implicit_wait = FALSE
    /\ clear_cookies \in BOOLEAN
    /\ with_requests = FALSE
    /\ scrape_pc = "idle"
    /\ page = "none"
    /\ raised_at = "none"
    /\ open_pages = 0
    /\ scrapes = 0
    /\ steps_done = <<>>
    /\ cookie_jar = {}
    /\ cwpc = [w \in Workers |-> "call"]
    /\ cookies_set = {}
    /\ cdone = [w \in Workers |-> 0]

\* The worker calls scrape for its next job: new_page, route.
CookieCall(w) ==
    /\ cwpc[w] = "call"
    /\ cdone[w] < MaxScrapes
    /\ cwpc' = [cwpc EXCEPT ![w] = "goto"]
    /\ UNCHANGED <<runVars, besidesCookies, scrapeVars, cookie_jar, cookies_set, cdone>>

\* await page.goto(url): the site may set cookies, which go to the context.
\* A goto that raises closes the page and leaves scrape.
CookieGoto(w) ==
    /\ cwpc[w] = "goto"
    /\ \E ok \in BOOLEAN, sets \in BOOLEAN :
         /\ cookie_jar' = IF sets THEN cookie_jar \cup {w} ELSE cookie_jar
         /\ IF ok
            THEN /\ cwpc' = [cwpc EXCEPT ![w] = "content"]
                 /\ cookies_set' = IF sets THEN cookies_set \cup {w} ELSE cookies_set
                 /\ UNCHANGED cdone
            ELSE /\ cwpc' = [cwpc EXCEPT ![w] = "call"]
                 /\ cdone' = [cdone EXCEPT ![w] = @ + 1]
                 /\ UNCHANGED cookies_set
    /\ UNCHANGED <<runVars, besidesCookies, scrapeVars>>

\* page.content(), both screenshots, ScraperOutput(...); then
\* "if self.clear_cookies".
CookieContent(w) ==
    /\ cwpc[w] = "content"
    /\ cwpc' = [cwpc EXCEPT ![w] = IF clear_cookies THEN "clear_cookies" ELSE "close"]
    /\ UNCHANGED <<runVars, besidesCookies, scrapeVars, cookie_jar, cookies_set, cdone>>

\* await self.context.clear_cookies()
CookieClear(w) ==
    /\ cwpc[w] = "clear_cookies"
    /\ cookie_jar' = ContextCleared(cookie_jar, w)
    /\ cwpc' = [cwpc EXCEPT ![w] = "close"]
    /\ UNCHANGED <<runVars, besidesCookies, scrapeVars, cookies_set, cdone>>

\* await page.close(); return result: the job is over.
CookieClose(w) ==
    /\ cwpc[w] = "close"
    /\ cwpc' = [cwpc EXCEPT ![w] = "call"]
    /\ cookies_set' = cookies_set \ {w}
    /\ cdone' = [cdone EXCEPT ![w] = @ + 1]
    /\ UNCHANGED <<runVars, besidesCookies, scrapeVars, cookie_jar>>

CookieNext ==
    \/ \E w \in DOMAIN cwpc : CookieCall(w)
    \/ \E w \in DOMAIN cwpc : CookieGoto(w)
    \/ \E w \in DOMAIN cwpc : CookieContent(w)
    \/ \E w \in DOMAIN cwpc : CookieClear(w)
    \/ \E w \in DOMAIN cwpc : CookieClose(w)

SpecCookies == CookieInit /\ [][CookieNext]_vars

\* ================================================================ claims

\* The handles that are not in the free list, and the jobs bound to them.
HeldHandles == Handles \ Range(freelist)

JobsBound == {cw[h] : h \in HeldHandles}

\* C1: in the connection-pool engine, in every state, the number of jobs bound
\* to handles (and the number of handles registered with the multiplexer) is
\* at most min(num_conn, K), for the num_conn given and the K jobs of the input.
C1_AtMostMinBound ==
    scraper = "curl" =>
        /\ Cardinality(JobsBound) <= Min(arg_num_conn, Len(urls))
        /\ Cardinality(registered) <= Min(arg_num_conn, Len(urls))
        /\ registered \subseteq HeldHandles

\* C1 witness: the pool is saturated (num_conn handles registered) while more
\* jobs than handles were submitted and one still waits in the queue.
C1_Witness ==
    /\ scraper = "curl"
    /\ Len(urls) > arg_num_conn
    /\ arg_num_conn >= 2
    /\ Cardinality(registered) = arg_num_conn
    /\ queue # <<>>

\* Where a handle is, and the job it is bound to.
C2_Places ==
    \A h \in Handles :
        /\ Count(freelist, h) + (IF h \in registered THEN 1 ELSE 0)
             + (IF c = h THEN 1 ELSE 0) = 1
        /\ h \in registered => cw[h] \in Jobs /\ outcome[cw[h]] = "none"
        /\ \A g \in HeldHandles : (h \in HeldHandles /\ g # h) => cw[g] # cw[h]

\* A step registers only a popped handle and frees only a removed one.
C2_Order ==
    \A h \in Handles :
        /\ (h \in registered' /\ h \notin registered) => h \notin Range(freelist)
        /\ Count(freelist', h) > Count(freelist, h) => h \notin registered

\* C2: in the connection-pool engine every handle is, in every state, in
\* exactly one place: once in the free list, or registered with the
\* multiplexer, or held by the loop (between the pop and add_handle, or between
\* remove_handle and the append); a handle that is not free is bound to one
\* job that no other handle holds and that has no result yet while registered.
\* A handle is registered only when it is no longer in the free list, and is
\* appended to the free list only when it is no longer registered.
C2_HandleExclusive == [](scraper = "curl" => C2_Places) /\ [][C2_Order]_vars

\* C2 witness: a handle that already served a job is held by the loop for its
\* next job while another handle is registered and a third place, the free
\* list, is empty.
C2_Witness ==
    /\ scraper = "curl"
    /\ pc = "c_add"
    /\ c \in hadError
    /\ registered # {}
    /\ freelist = <<>>

\* The state in which the main loop is left.
C3_AtExit ==
    (scraper = "curl" /\ pc = "c_cleanup" /\ num_urls >= 1) =>
        /\ num_processed = Len(urls)
        /\ queue = <<>>
        /\ registered = {}
        /\ msgs = <<>>
        /\ c = None
        /\ Len(freelist) = num_conn

\* C3: in the connection-pool engine with K >= 1 jobs and a valid num_conn,
\* when every registered transfer eventually ends (ok or error), the main loop
\* is eventually left; and whenever it is left exactly K completions have
\* been counted, the job queue is empty and no transfer is in flight.
C3_LoopTerminates ==
    /\ []C3_AtExit
    /\ (pc = "c_loop" /\ num_urls >= 1) ~> (pc = "c_cleanup")

\* C3 witness: the loop has been left after three jobs shared two handles,
\* with both an ok and an error completion.
C3_Witness ==
    /\ scraper = "curl"
    /\ pc = "c_cleanup"
    /\ num_urls >= 3
    /\ num_conn = 2
    /\ \E i, j \in Jobs : outcome[i] = "ok" /\ outcome[j] = "err"

\* The page-pool run is over: it returned, or the browser launch raised.
PwOver == pc \in {"done", "failed"}

\* C4: in the page-pool engine with num_pages >= 1, a run that is not over can
\* always take a further step (no state is reached in which the main task and
\* every worker wait for ever), so that the run goes on to return from the
\* join, leave the task group, truncate and close the scraper.
C4_RunTerminates ==
    (scraper = "playwright" /\ arg_num_pages >= 1 /\ ~PwOver) => ENABLED PwNext

\* The main task has put the URLs and the stop markers on the queue.
Seeded == pc \in {"p_join", "p_tg_exit", "p_truncate", "p_close", "done"}

Joined == pc \in {"p_tg_exit", "p_truncate", "p_close", "done"}

\* C5: in the page-pool engine with M = num_pages >= 1, the M stop markers
\* follow all jobs in the queue, no worker consumes more than one marker, the
\* run has joined only if all M workers have exited with one marker each, and
\* once all M workers have exited the join returns.
C5_MarkersThenJoin ==
    (scraper = "playwright" /\ arg_num_pages >= 1 /\ Seeded) =>
        /\ Len(job_queue) + Cardinality({w \in Workers : markers[w] = 1})
             + Cardinality({j \in Jobs : delivered[j] = 1})
             = Len(urls) + arg_num_pages
        /\ \A i \in 1..Len(job_queue) :
             job_queue[i] = None => \A k \in i..Len(job_queue) : job_queue[k] = None
        /\ \A w \in Workers : markers[w] = (IF wpc[w] = "exited" THEN 1 ELSE 0)
        /\ Joined => AllWorkersExited
        /\ (pc = "p_join" /\ AllWorkersExited) => ENABLED PwJoin

\* C6: in the page-pool engine, under every interleaving, a job is dequeued at
\* most once; once the queue is seeded every job is either still in the queue
\* (once) or was delivered (once), never both; no two workers hold the same
\* job; and when all workers have exited every job was delivered and
\* processed.
C6_ExactlyOnce ==
    scraper = "playwright" =>
        /\ \A j \in Jobs : delivered[j] <= 1
        /\ Seeded => \A j \in Jobs : Count(job_queue, j) + delivered[j] = 1
        /\ \A j \in Jobs :
             Cardinality({w \in DOMAIN wurl : wurl[w] = j}) <= delivered[j]
        /\ (Seeded /\ arg_num_pages >= 1 /\ AllWorkersExited) =>
             \A j \in Jobs : delivered[j] = 1 /\ outcome[j] # "none"

\* C6 witness: two workers hold two different jobs while a third job waits in
\* the queue.
C6_Witness ==
    /\ scraper = "playwright"
    /\ \E v, w \in DOMAIN wurl :
         /\ v # w
         /\ wurl[v] # None
         /\ wurl[w] # None
    /\ \E j \in Jobs : Count(job_queue, j) = 1

\* A step in which the job held by worker w raises.
RaisesIn(w) ==
    /\ wurl[w] # None
    /\ outcome[wurl[w]] = "none"
    /\ outcome'[wurl[w]] = "err"

\* What a raising step and the step out of the finally clause do.
C7_Caught ==
    \A w \in DOMAIN wpc :
        /\ RaisesIn(w) =>
             /\ wpc'[w] = "finally"
             /\ \A v \in DOMAIN wpc : v # w => wpc'[v] = wpc[v]
             /\ pc' = pc
        /\ (wpc[w] = "finally" /\ wpc'[w] # "finally") =>
             /\ wpc'[w] = "get"
             /\ unfinished_tasks' = unfinished_tasks - 1
             /\ job_queue' = job_queue

\* C7: in the page-pool engine, when a statement of a worker's try block
\* raises, that worker goes to its finally clause, every other worker and the
\* main task are where they were; from the finally clause the worker marks the
\* job done and is back at queue.get(); and no worker is ever left by an
\* exception or cancelled.
C7_ErrorStaysInWorker ==
    /\ [](\A w \in DOMAIN wpc : wpc[w] \notin {"crashed", "cancelled"})
    /\ [][C7_Caught]_vars

\* C7 witness: one job has failed, and both workers are scraping later jobs:
\* the worker of the failed job has dequeued its next item and its sibling
\* runs on.
C7_Witness ==
    /\ scraper = "playwright"
    /\ \E j \in Jobs : outcome[j] = "err"
    /\ Cardinality(DOMAIN wpc) >= 2
    /\ \A w \in DOMAIN wpc : wpc[w] = "scrape" /\ outcome[wurl[w]] = "none"

\* The states of and after the error branch.
C8_State ==
    /\ pc = "c_err_free" => (c \in Handles /\ c \notin registered)
    /\ hadError # {} => pc # "failed"
    /\ (hadError # {} /\ pc \in {"c_cleanup", "c_truncate", "done", "crashed"}) =>
         /\ num_processed = num_urls
         /\ \A j \in Jobs : delivered[j] = 1 /\ outcome[j] \in {"ok", "err"}

\* The two steps of the error branch.
C8_Step ==
    /\ (pc = "c_err" /\ pc' = "c_err_free") =>
         (c' \in hadError' /\ c' \notin registered' /\ outcome'[cw[c']] = "err")
    /\ (pc = "c_err_free" /\ pc' # "c_err_free") =>
         (pc' = "c_err" /\ c \in Range(freelist') /\ c \notin registered')

ResultsFor(j, t) == Len(SelectSeq(results, LAMBDA r : r.job = j /\ r.tag = t))

\* Every job of the run has been processed: the connection-pool loop is left,
\* or every page-pool worker has exited.
RunEnded ==
    \/ scraper = "curl" /\ pc \in {"c_cleanup", "c_truncate", "done", "crashed"}
    \/ scraper = "playwright" /\ arg_num_pages >= 1 /\ Seeded /\ AllWorkersExited

RECURSIVE SplitLines(_)
SplitLines(f) ==
    IF f = <<>> THEN <<>>
    ELSE LET nls == {i \in 1..Len(f) : <<f[i]>> = LineSep}
         IN  IF nls = {} THEN <<f>>
             ELSE LET i == CHOOSE k \in nls : \A m \in nls : k <= m
                  IN  <<SubSeq(f, 1, i - 1)>> \o SplitLines(SubSeq(f, i + 1, Len(f)))

Succeeded == {j \in Jobs : outcome[j] = "ok"}

\* C10: in the connection-pool engine, when the run is done (S >= 1 jobs
\* succeeded), the file read back is the S records of the successful jobs in
\* the order they were written, nothing of a failed job, one delimiter between
\* consecutive records and none after the last.
C10_FileIsRecords ==
    (scraper = "curl" /\ pc = "done") =>
        /\ Cardinality(Succeeded) >= 1
        /\ Len(results) = Cardinality(Succeeded)
        /\ SplitLines(output) = [i \in 1..Len(results) |-> <<Record(results[i].job)>>]
        /\ \A j \in Jobs : Count(output, Record(j)) = (IF j \in Succeeded THEN 1 ELSE 0)
        /\ Len(output) = 2 * Len(results) - 1
        /\ <<Last(output)>> # LineSep

\* C10 witness: a finished run with two records or more in the file and a
\* failed job.
C10_Witness ==
    /\ scraper = "curl"
    /\ pc = "done"
    /\ Len(results) >= 2
    /\ \E j \in Jobs : outcome[j] = "err"

\* C11: in the page-pool engine, in every state, the output file never holds
\* two records with no delimiter between them nor two consecutive delimiters
\* (each record is immediately followed by its own delimiter), whatever the
\* interleaving of the workers' writes.
C11_RecordThenDelimiter ==
    scraper = "playwright" =>
        \A i \in 1..(Len(output) - 1) :
            /\ ~(output[i][1] = "rec" /\ output[i + 1][1] = "rec")
            /\ ~(output[i][1] = "nl" /\ output[i + 1][1] = "nl")

\* C12: in both engines the final truncation is never reached with a target
\* size below zero and the run is never ended by an error of the truncation;
\* a run that ended without a successful record left the output file empty.
C12_EmptyRunCompletes ==
    /\ pc \in {"c_truncate", "p_truncate"} => TruncateSize(output) >= 0
    /\ pc # "crashed"
    /\ (pc = "done" /\ Succeeded = {}) => output = <<>>

\* C13: strip_data is idempotent: for every page, to_strip list and
\* keep_request_type list, stripping the stripped page again with the same
\* arguments gives the stripped page.
C13_Idempotent ==
    spc = "twice" => stripped_twice = stripped

\* C13 witness: a second call on a page the first call both filtered (a
\* request dropped, a request kept) and blanked.
C13_Witness ==
    /\ spc = "twice"
    /\ keep_request_type # <<>>
    /\ stripped.requests.items # <<>>
    /\ Len(stripped.requests.items) < Len(data.requests.items)
    /\ stripped.body # data.body

\* C14: whenever keep_request_type is not empty the stripped page's requests
\* are exactly the requests of the input whose resource_type is in it, in
\* their order, whether or not "requests" is in to_strip; when it is empty and
\* "requests" is not in to_strip the requests are unchanged.
C14_RequestsFiltered ==
    spc = "once" =>
        /\ keep_request_type # <<>> =>
             stripped.requests.items =
                 SelectSeq(data.requests.items,
                           LAMBDA r : r[2] \in Range(keep_request_type))
        /\ (keep_request_type = <<>> /\ "requests" \notin Range(to_strip)) =>
             stripped.requests = data.requests

\* C15: every field of the page that to_strip names holds its zero value in
\* the stripped page ([] for a list or tuple, {} for a dict, None otherwise),
\* "requests" included.
C15_NamedFieldsZeroed ==
    spc = "once" =>
        \A f \in Range(to_strip) \cap DOMAIN data :
            stripped[f] = (IF data[f].kind \in {"list", "tuple"} THEN Value("list", <<>>)
                           ELSE IF data[f].kind = "dict" THEN Value("dict", <<>>)
                           ELSE NoneValue)

\* C16: strip_data changes only the fields to_strip names: every other field
\* keeps its value, the page has the same field names before and after, and a
\* name that is no field of the page changes nothing.
C16_OnlyNamedFields ==
    spc = "once" =>
        /\ DOMAIN stripped = DOMAIN data
        /\ \A f \in DOMAIN data : f \notin Range(to_strip) => stripped[f] = data[f]
        /\ Range(to_strip) \cap DOMAIN data = {} => stripped = data

\* C16 witness: a call that names a field of the page and a name that is no
\* field of it; the named field changed.
C16_Witness ==
    /\ spc = "once"
    /\ "nofield" \in Range(to_strip)
    /\ "body" \in Range(to_strip)
    /\ stripped.body # data.body
    /\ stripped.requests = data.requests
    /\ data.requests.items # <<>>

\* C17: in the connection-pool engine a num_conn below 1 or above 10000 is
\* rejected (the run fails at the assert) with the URL file not read, the
\* output file neither opened nor emptied, no handle allocated and no transfer
\* started: the run is only ever at its start or failed, and nothing of the
\* setup has happened.
C17_RejectedBeforeAnything ==
    (scraper = "curl" /\ (arg_num_conn < 1 \/ arg_num_conn > 10000)) =>
        /\ pc \in {"start", "failed"}
        /\ pc = "start" => ENABLED CurlAssert
        /\ num_urls = 0 /\ queue = <<>>
        /\ output = OldContent
        /\ num_conn = 0 /\ freelist = <<>> /\ cw = <<>>
        /\ registered = {} /\ msgs = <<>>
        /\ \A j \in Jobs : delivered[j] = 0 /\ outcome[j] = "none"

\* C17 witness: a run with jobs to do was rejected for a num_conn above 10000.
C17_Witness ==
    /\ scraper = "curl"
    /\ pc = "failed"
    /\ arg_num_conn > 10000
    /\ urls # <<>>

\* C18: in the page-pool engine a num_pages of 0 (or below) is rejected before
\* anything is attempted: the run is only ever at its start or failed, the
\* browser is not launched, no job is put on the queue and no worker is
\* started; the run does not go on with zero workers.
C18_ZeroPagesRejected ==
    (scraper = "playwright" /\ arg_num_pages < 1) =>
        /\ pc \in {"start", "failed"}
        /\ job_queue = <<>>
        /\ unfinished_tasks = 0

\* The jobs that have ended, with a record or with an error.
Finished == {j \in Jobs : outcome[j] # "none"}

\* The jobs that have ended and whose handler has not reached pbar.update(1)
\* yet: the one the connection-pool loop is handling, those of the workers
\* that are at their finally clause.
BeingCounted ==
    IF scraper = "curl"
    THEN (IF pc \in {"c_ok_free", "c_err_free"} THEN 1 ELSE 0)
    ELSE Cardinality({w \in DOMAIN wpc : wpc[w] = "finally"})

\* C19: in both engines the progress bar's count is, in every state, the
\* number of jobs that have ended (success or error) and have been through
\* their handler's pbar.update(1), each counted once; it is K when every job
\* has been processed and when the run is done.
C19_CountedOncePerJob ==
    /\ pbar = Cardinality(Finished) - BeingCounted
    /\ (RunEnded \/ pc = "done") => pbar = Len(urls)

\* C19 witness: every job of a run has been processed, one with a record and
\* one with an error, and the count is K.
C19_Witness ==
    /\ RunEnded
    /\ pbar = Len(urls)
    /\ \E j \in Jobs : outcome[j] = "ok"
    /\ \E j \in Jobs : outcome[j] = "err"

\* C20: whenever a call of scrape has ended, by returning a result or by
\* raising at any of its steps, the page it opened is closed: no page of the
\* context stays open after its job.
C20_PageClosedOnExit ==
    scrape_pc = "end" => (page # "open" /\ open_pages = 0)

RECURSIVE SeqSum(_)
SeqSum(q) == IF q = <<>> THEN 0 ELSE Head(q) + SeqSum(Tail(q))

\* The jobs taken off the queue whose handling has not reached the end of the
\* worker's finally clause.
InProgress == SeqSum(delivered) - pbar

\* A worker takes a job only when it holds none: its previous job has been
\* through the finally clause.
C21_OneJobPerWorker ==
    \A w \in DOMAIN wpc \cap DOMAIN wpc' :
        (wurl'[w] # wurl[w] /\ wurl'[w] # None) => (wurl[w] = None /\ wpc[w] = "get")

\* C21: in the page-pool engine at most num_pages jobs are in progress in any
\* state, no two workers hold the same job, and a worker starts a job only
\* after its previous job has fully finished.
C21_AtMostMInProgress ==
    /\ [](scraper = "playwright" =>
            /\ InProgress <= arg_num_pages
            /\ \A v, w \in DOMAIN wpc :
                 (v # w /\ wurl[v] # None) => wurl[v] # wurl[w])
    /\ [][scraper = "playwright" => C21_OneJobPerWorker]_vars

\* C21 witness: with 2 pages and a third job, a worker that finished a job is
\* on its next one while the other worker is still on its first.
C21_Witness ==
    /\ scraper = "playwright"
    /\ arg_num_pages = 2
    /\ pbar >= 1
    /\ InProgress = 2
    /\ \A w \in DOMAIN wpc : wurl[w] # None

\* No job has been started and no record written.
NothingStarted ==
    /\ \A j \in Jobs : delivered[j] = 0 /\ outcome[j] = "none"
    /\ results = <<>>
    /\ \A i \in 1..Len(output) : output[i][1] # "rec"
    /\ pbar = 0

\* C22: when the engine's setup fails (the browser cannot be launched, the curl
\* handle pool cannot be allocated) the run never gets past the setup and ends
\* failed, which is what the caller sees: in the page-pool engine no worker is
\* created, nothing is put on or taken off the queue; in the connection-pool
\* engine no handle is registered or bound to a job; no record is written.
C22_SetupFailureAborts ==
    ~setup_ok =>
        /\ NothingStarted
        /\ scraper = "playwright" =>
             /\ pc \in {"start", "failed"}
             /\ wpc = <<>> /\ job_queue = <<>> /\ unfinished_tasks = 0
             /\ output = OldContent
        /\ scraper = "curl" =>
             /\ pc \in {"start", "c_setup", "failed"}
             /\ registered = {} /\ freelist = <<>> /\ cw = <<>>
        /\ pc = "failed" => ~ENABLED Next

\* C22 witness: a page-pool run with jobs and pages ended at the launch of the
\* browser.
C22_Witness ==
    /\ ~setup_ok
    /\ scraper = "playwright"
    /\ pc = "failed"
    /\ urls # <<>>
    /\ arg_num_pages >= 1

\* C23: in the connection-pool engine every handle of the pool holds, from the
\* creation of the pool on, the options CurlScraper.setup derives from the
\* configuration, the per-job timeout among them.
C23_HandlesConfigured ==
    (scraper = "curl" /\ pc \notin {"start", "c_setup", "failed"}) =>
        \A h \in Handles :
            /\ handle_options[h] = SetupOptions
            /\ "TIMEOUT" \in handle_options[h]

\* The jobs bound to a handle so far.
Bound == {j \in Jobs : delivered[j] > 0}

\* A step that writes to the file appends, at its end, the record of the
\* transfer the drain loop is at (ok_list[idx]) and its delimiter.
C24_WritesInDrainOrder ==
    (pc = "c_ok_write" /\ pc' = "c_ok_free") =>
        /\ c = ok_list[idx]
        /\ output' = output \o <<Record(cw[ok_list[idx]])>> \o LineSep
        /\ results' = Append(results, [job |-> cw[ok_list[idx]], tag |-> "success"])

\* C24: in the connection-pool engine jobs are bound in the order of
\* submission: the jobs bound so far are the first ones of the list and the
\* queue holds the others in their order, so job i is bound no later than job
\* j for i < j; records are written in the order the completed transfers are
\* drained.
C24_FifoBinding ==
    /\ [](scraper = "curl" /\ pc \notin {"start", "c_setup", "failed"} =>
            /\ \A i, j \in Jobs : (i < j /\ j \in Bound) => i \in Bound
            /\ queue = SubSeq(urls, Cardinality(Bound) + 1, Len(urls)))
    /\ [][scraper = "curl" => C24_WritesInDrainOrder]_vars

\* C24 witness: the record of a job submitted later is in the file before the
\* record of a job submitted earlier.
C24_Witness ==
    /\ scraper = "curl"
    /\ \E p, q \in 1..Len(results) : p < q /\ results[p].job > results[q].job

\* The handle the loop has in hand: popped and not yet registered, or removed
\* and not yet back in the free list.
InHand == IF c = None THEN 0 ELSE 1

\* C25: in the connection-pool engine the pool has min(num_conn, K) handles
\* from its creation to the end of the run, and in every state of the main
\* loop the free handles and the registered handles (with the one the loop has
\* in hand, if any) number min(num_conn, K): free + registered is exactly
\* min(num_conn, K) whenever the loop has no handle in hand.
C25_PoolSizeFixed ==
    /\ [](scraper = "curl" /\ pc \notin {"start", "c_setup", "failed"} =>
            /\ num_conn = Min(arg_num_conn, Len(urls))
            /\ Len(freelist) + Cardinality(registered) + InHand
                 = Min(arg_num_conn, Len(urls))
            /\ pc \in {"c_loop", "c_bind", "c_perform", "c_info_read", "c_select"}
                 => InHand = 0)
    /\ [][(scraper = "curl" /\ pc \notin {"start", "c_setup"}) =>
             num_conn' = num_conn]_vars

\* C25 witness: two handles for three jobs; after two completions one handle
\* is free and the other is registered with the third job.
C25_Witness ==
    /\ scraper = "curl"
    /\ arg_num_conn = 2
    /\ pc = "c_select"
    /\ pbar = 2
    /\ Len(freelist) = 1
    /\ Cardinality(registered) = 1

\* The loop has ended and the cleanup has run.
ShutDown == pc \in {"c_truncate", "done", "crashed"}

\* C26: in the connection-pool engine no handle is closed while the main loop
\* runs; handles are closed by the one cleanup step, taken after the loop has
\* ended with every job processed and no handle registered, and after it each
\* handle of the pool has been closed exactly once.
C26_ClosedOnceAtShutdown ==
    /\ [](scraper = "curl" =>
            /\ ~ShutDown => closed = <<>>
            /\ ShutDown =>
                 /\ \A h \in Handles : Count(closed, h) = 1
                 /\ Len(closed) = num_conn
                 /\ registered = {})
    /\ [][(scraper = "curl" /\ closed' # closed) =>
             /\ pc = "c_cleanup"
             /\ num_processed = num_urls
             /\ registered = {}
             /\ closed = <<>>]_vars

\* C26 witness: a run is done whose two handles served three jobs, one of
\* them after an error, and were closed at the end.
C26_Witness ==
    /\ scraper = "curl"
    /\ pc = "done"
    /\ Len(closed) = 2
    /\ hadError # {}
    /\ Len(urls) = 3

\* The position of a statement among those the current call of scrape has
\* completed, 0 when it has not.
Pos(step) ==
    IF \E i \in 1..Len(steps_done) : steps_done[i] = step
    THEN CHOOSE i \in 1..Len(steps_done) : steps_done[i] = step
    ELSE 0

Before(a, b) == Pos(b) > 0 => (Pos(a) > 0 /\ Pos(a) < Pos(b))

\* C27: within a call of scrape the route interceptor, and the request
\* observer when with_requests is set, are registered before the navigation;
\* the body is read, and both screenshots are taken, only after the navigation
\* has returned; the viewport screenshot comes before the full-page one.
C27_StepsInOrder ==
    scrape_pc # "idle" =>
        /\ Before("route", "goto")
        /\ with_requests => Before("on_requestfinished", "goto")
        /\ ~with_requests => Pos("on_requestfinished") = 0
        /\ Before("goto", "content")
        /\ Before("goto", "screenshot")
        /\ Before("screenshot", "full_screenshot")
        /\ Before("content", "screenshot")

\* C27 witness: a scrape with the observer registered has navigated and taken
\* both screenshots.
C27_Witness ==
    /\ with_requests
    /\ Pos("on_requestfinished") > 0
    /\ Pos("goto") > 0
    /\ Pos("full_screenshot") > 0

\* What becomes of a sub-request: the first call on its route decides.
Continued == route_calls # <<>> /\ Head(route_calls) = "continue"

\* C28: a sub-request whose path ends with no extension of the allow list and
\* none of the block list is continued and never aborted; with both lists
\* empty every sub-request is continued.
C28_FailOpen ==
    intercepted > 0 =>
        /\ (/\ \A e \in allow_exts : ~EndsWith(route_path, e)
            /\ \A e \in block_exts : ~EndsWith(route_path, e))
             => (Continued /\ \A i \in 1..Len(route_calls) : route_calls[i] # "abort")
        /\ (allow_exts = {} /\ block_exts = {}) => Continued

\* C28 witness: with both lists set, a sub-request for a path neither names
\* has been intercepted.
C28_Witness ==
    /\ intercepted > 0
    /\ allow_exts = {<<".js">>}
    /\ block_exts = {<<".png">>}
    /\ route_path = <<"/", "a">>

\* The RequestOutputs recorded for the i-th finished exchange.
RecordedFor(i) == {k \in 1..Len(requests) : requests[k].exchange = i}

\* The exchange has a response and a read of it that is made raises.
ReadFails(x) ==
    /\ x.responded
    /\ \/ x.fail = "security_details"
       \/ x.status = 200 /\ x.fail \in {"body", "all_headers"}

\* C29: every finished exchange whose callback is over has one RequestOutput recorded; it carries a
\* ResponseOutput with the body exactly when the status of the response is
\* 200, and response None for any other status or no response.
C29_ResponseIffOk ==
    \A i \in (1..Len(finished)) \ pending :
        /\ Cardinality(RecordedFor(i)) = 1
        /\ \A k \in RecordedFor(i) :
             IF finished[i].responded /\ finished[i].status = 200
             THEN /\ requests[k].response # <<>>
                  /\ requests[k].response[1].body = "body"
             ELSE requests[k].response = <<>>

\* C30: an exchange whose response cannot be read is, once its callback is
\* over, still recorded, with its
\* response omitted; the exchanges whose reads succeed are recorded as they
\* would be alone, and no exception leaves the callback.
C30_ReadFailureDegrades ==
    /\ ~escaped
    /\ \A i \in (1..Len(finished)) \ pending :
         /\ ReadFails(finished[i]) =>
              \E k \in RecordedFor(i) : requests[k].response = <<>>
         /\ (finished[i].responded /\ ~ReadFails(finished[i])) =>
              RecordedFor(i) # {}

\* request_handler returns a RequestOutput for the exchange.
Recordable(x) == ~request_handler(x, 0).raised

\* C31: the requests of a result are in the order in which the
\* requestfinished events fired, and every exchange that finished before the
\* result was built, and that request_handler can record, is among them.
C31_ChronologicalAndComplete ==
    hpc = "written" =>
        /\ \A k, l \in 1..Len(result) :
             k < l => result[k].exchange < result[l].exchange
        /\ \A i \in 1..Len(finished) :
             Recordable(finished[i]) => \E k \in 1..Len(result) : result[k].exchange = i

\* C32: whatever was assigned, by attribute or by item, reading a field as
\* an item and as an attribute gives the same value.
C32_ItemEqualsAttribute ==
    \A f \in OutFields : GetItem(f) = GetAttr(f)

\* C33: every intercepted sub-request is resolved exactly once: one call on
\* its route, continue or abort, whichever list its path matches.
C33_ResolvedExactlyOnce ==
    intercepted > 0 =>
        /\ Len(route_calls) = 1
        /\ route_calls[1] \in {"continue", "abort"}

\* The jobs still in the queue.
JobsQueued == {i \in 1..Len(job_queue) : job_queue[i] # None}

\* C35: in the queue every job is ahead of every stop marker, and once a
\* worker has dequeued a stop marker no job is left in the queue: every job
\* has been dequeued before any worker exits.
C35_JobsBeforeMarkers ==
    /\ \A i, j \in 1..Len(job_queue) :
         (i < j /\ job_queue[i] = None) => job_queue[j] = None
    /\ (\E w \in DOMAIN wpc : wpc[w] = "exited") =>
         /\ JobsQueued = {}
         /\ \A i \in 1..Len(urls) : delivered[urls[i]] >= 1

\* C35 witness: more jobs than workers, one worker has exited while another
\* is still scraping its job.
C35_Witness ==
    /\ Len(urls) > arg_num_pages
    /\ \E w, v \in DOMAIN wpc : wpc[w] = "exited" /\ wpc[v] = "scrape"

\* The states of the main loop of _curl_main.
InMainLoop ==
    /\ scraper = "curl"
    /\ pc \in {"c_loop", "c_bind", "c_add", "c_perform", "c_info_read", "c_ok",
               "c_ok_write", "c_ok_free", "c_err", "c_err_free", "c_select"}

\* The jobs in flight: those of the registered handles, and the one just
\* bound to the handle about to be registered.
InFlight == Cardinality(registered) + (IF pc = "c_add" THEN 1 ELSE 0)

\* The completions of the batch being drained that are already off the
\* multiplexer; num_processed takes the whole batch in at its end.
Drained ==
    Cardinality({h \in Range(ok_list) \cup Range(err_list) : h \notin registered})

\* C36: in every state of the main loop the jobs queued, the jobs in flight
\* and the jobs processed (num_processed, with the completions of the batch
\* being drained) number K; between batches that is queued + in flight +
\* num_processed = K.  A job is bound at most once, and num_processed counts
\* each job that has ended once.
C36_JobsConserved ==
    InMainLoop =>
        /\ Len(queue) + InFlight + Drained + num_processed = Len(urls)
        /\ (ok_list = <<>> /\ err_list = <<>> /\ c = None) =>
             /\ Len(queue) + Cardinality(registered) + num_processed = Len(urls)
             /\ num_processed = Cardinality(Finished)
        /\ \A j \in Jobs : delivered[j] <= 1
        /\ Cardinality(Bound) = Len(urls) - Len(queue)

\* C36 witness: at the head of the loop a job is queued, one is in flight and
\* one has been counted.
C36_Witness ==
    /\ scraper = "curl"
    /\ pc = "c_loop"
    /\ queue # <<>>
    /\ registered # {}
    /\ num_processed > 0

\* C37: in the connection-pool engine the result of a completed transfer
\* carries the request URL of the job bound to its handle, and its body and
\* headers hold the data received for that job and for no other, also when
\* the handle served another job before.
C37_NoMixing ==
    /\ Len(got) = Len(results)
    /\ \A i \in 1..Len(got) :
         /\ got[i].request_url = results[i].job
         /\ got[i].data = {got[i].request_url}
    /\ (scraper = "curl" /\ pc \in {"c_ok_write", "c_ok_free"}) =>
         (cw[c] \in wbuf[c] /\ wbuf[c] \subseteq {cw[c]})

\* C37 witness: a handle produced the result of one job and then, reused,
\* the result of another.
C37_Witness ==
    \E p, q \in 1..Len(got) :
        /\ p < q
        /\ got[p].handle = got[q].handle
        /\ got[p].request_url # got[q].request_url

\* C38: with clear_cookies on and two workers or more, a job that is in
\* progress (its page loaded, its own clear not reached) and has set cookies
\* still has them in the context: the clear of another job has not removed
\* them.
C38_NoCookieInterference ==
    (clear_cookies /\ arg_num_pages >= 2) =>
        \A w \in DOMAIN cwpc :
            (w \in cookies_set /\ cwpc[w] \in {"content", "clear_cookies"})
                => w \in cookie_jar

====
